---- MODULE Spec2Model ----
(***************************************************************************)
(* Network-clock player (playback with a GstNetClientClock): main(), the   *)
(* bus-message handler handle_bus_msg() and the stdin handler              *)
(* io_callback(), run by one GLib main loop (specification Spec); and the  *)
(* clock provider netclock-server, a process of its own (specification     *)
(* SpecProvider).                                                          *)
(*                                                                         *)
(* Time values (GstClockTime / gint64 nanoseconds) are counted in whole    *)
(* seconds, so 10 * GST_SECOND is SeekStep.  The pipeline is opaque: the   *)
(* model records the commands the program sends to it and draws the        *)
(* pipeline's answers (return codes, messages, query results) from small   *)
(* sets.                                                                   *)
(***************************************************************************)
EXTENDS Integers, Sequences, FiniteSets

VARIABLES
    pc,           \* position of main()
    argc,         \* number of command line arguments left after option parsing
    clock_host,   \* static gchar *clock_host
    clock_port,   \* static gint clock_port
    base_time,    \* static GstClockTime base_time
    reachable,    \* the clock provider answers the client's requests
    synced,       \* the net client clock is synchronised to the provider
    playbin,      \* data.playbin holds a pipeline
    bus_watch,    \* source data.bus_watch: "none", "installed", "removed"
    io_watch,     \* source data.io_watch_id: "none", "installed", "removed"
    buffering,    \* data.buffering
    is_live,      \* data.is_live
    sret,         \* result of the start command
    running,      \* the loop's is_running flag
    iter,         \* which source the current loop iteration dispatches next
    cmds,         \* the pipeline commands main() has issued, in order
    ev,           \* the message or input the last dispatched handler handled
    pre,          \* data.buffering, data.is_live and is_running when that handler started
    issued,       \* the pipeline commands that handler issued, in order
    quitBy,       \* the handler that first called g_main_loop_quit
    afterQuit,    \* commands issued by handlers dispatched after that call
    bufLog,       \* the latest buffering messages handled, while they follow Scenario
    exit_code,    \* the process's exit status
    provider      \* the clock provider process (netclock-server)

vars == <<pc, argc, clock_host, clock_port, base_time, reachable, synced,
          playbin, bus_watch, io_watch, buffering, is_live, sret, running,
          iter, cmds, ev, pre, issued, quitBy, afterQuit, bufLog, exit_code,
          provider>>

(***************************************************************************)
(* Program constants and input domains                                     *)
(***************************************************************************)
GST_CLOCK_TIME_NONE == -1      \* (GstClockTime) -1, read through a gint64
SeekStep == 10                 \* 10 * GST_SECOND
Latency == 100                 \* 100 * GST_MSECOND, in milliseconds

GstStates == {"VOID_PENDING", "NULL", "READY", "PAUSED", "PLAYING"}
StateChangeReturns == {"FAILURE", "SUCCESS", "ASYNC", "NO_PREROLL"}
Percents == {0, 90, 95, 99, 100}
Scenario == <<90, 95, 99, 100>>    \* the buffer levels of the hysteresis example
Positions == {0, 5, 9, 10, 11, 30}
BaseTimes == {GST_CLOCK_TIME_NONE, 0, 1000}
Ports == {0, 5000}
Hosts == {"NULL", "192.168.1.1"}

(***************************************************************************)
(* Pipeline commands                                                       *)
(***************************************************************************)
Cmd(op, st, val) == [op |-> op, val |-> val, state |-> st]
SetState(s) == Cmd("set_state", s, 0)
SeekSimple(p) == Cmd("seek", "-", p)
UseClock == Cmd("use_clock", "-", 0)
SetStartTime(t) == Cmd("set_start_time", "-", t)
SetBaseTime(t) == Cmd("set_base_time", "-", t)
SetLatency(l) == Cmd("set_latency", "-", l)
SetUri == Cmd("set_uri", "-", 0)
SetDownloadFlag == Cmd("set_flags_download", "-", 0)
RecalculateLatency == Cmd("recalculate_latency", "-", 0)
SetCurrentAudio(n) == Cmd("set_current_audio", "-", n)
SetCurrentText(n) == Cmd("set_current_text", "-", n)
SetSubtitles(on) == Cmd("set_flags_subtitles", "-", IF on THEN 1 ELSE 0)
SetVis(on) == Cmd("set_flags_vis", "-", IF on THEN 1 ELSE 0)
Unref == Cmd("unref", "-", 0)

IsSetState(c) == c.op = "set_state"
StateCmds(s) == SelectSeq(s, IsSetState)

Event(type, percent, st, ok, pos) ==
    [state |-> st, type |-> type, percent |-> percent, ok |-> ok, pos |-> pos]
NoEvent == Event("none", 0, "-", TRUE, 0)
Msg(type) == Event(type, 0, "-", TRUE, 0)

(***************************************************************************)
(* The provider's state: position of its main(), argc and the port given   *)
(* in argv[1], clock_port, whether the GstNetTimeProvider exists, the      *)
(* one-second timer, the loop's is_running flag, the system clock in       *)
(* seconds, the number of timer ticks and the lines printed.               *)
(***************************************************************************)
ProviderState(at, ac, av, port, made, timer, run, now, ticks, out) ==
    [pc |-> at, argc |-> ac, clock_port |-> port, running |-> run,
     timer |-> timer, now |-> now, ticks |-> ticks, out |-> out,
     argv_port |-> av, net_clock |-> made]

\* The provider is not part of the run.
ProviderOff == ProviderState("off", 1, 0, 0, FALSE, "none", FALSE, 0, 0, <<>>)

(***************************************************************************)
(* main(): start-up                                                        *)
(***************************************************************************)
Init ==
    /\ pc = "parse"
    /\ argc \in {1, 2}
    /\ clock_host \in Hosts
    /\ clock_port \in Ports
    /\ base_time \in BaseTimes
    /\ reachable \in BOOLEAN
    /\ synced = FALSE
    /\ playbin = FALSE
    /\ bus_watch = "none"
    /\ io_watch = "none"
    \* GlobalData data is an automatic variable that main() never clears:
    \* its fields hold whatever the stack held.
    /\ buffering \in BOOLEAN
    /\ is_live \in BOOLEAN
    /\ sret = "-"
    /\ running = FALSE
    /\ iter = "bus"
    /\ cmds = <<>>
    /\ ev = NoEvent
    /\ pre = [buffering |-> FALSE, is_live |-> FALSE, running |-> FALSE]
    /\ issued = <<>>
    /\ quitBy = "none"
    /\ afterQuit = <<>>
    /\ bufLog = <<>>
    /\ exit_code = "none"
    /\ provider = ProviderOff

\* Variant of ArgsMissing: a port of 0 is accepted.
ArgsMissing_NoPortCheck == argc < 2 \/ clock_host = "NULL"

ArgsMissing == argc < 2 \/ clock_host = "NULL" \/ clock_port = 0

\* main(), the usage check: print the usage text and return 1.
Usage ==
    /\ pc = "parse"
    /\ ArgsMissing
    /\ pc' = "exited"
    /\ exit_code' = "1"
    /\ UNCHANGED <<provider,
                   argc, clock_host, clock_port, base_time, reachable, synced,
                   playbin, bus_watch, io_watch, buffering, is_live, sret,
                   running, iter, cmds, ev, pre, issued, quitBy, afterQuit,
                   bufLog>>

\* Variant of NewNetClock: main() builds the pipeline without waiting.
NewNetClock_NoWait ==
    /\ pc = "parse"
    /\ ~ArgsMissing
    /\ pc' = "create"
    /\ UNCHANGED <<provider,
                   argc, clock_host, clock_port, base_time, reachable, synced,
                   playbin, bus_watch, io_watch, buffering, is_live, sret,
                   running, iter, cmds, ev, pre, issued, quitBy, afterQuit,
                   bufLog, exit_code>>

\* main(): gst_net_client_clock_new, then enter gst_clock_wait_for_sync.
NewNetClock ==
    /\ pc = "parse"
    /\ ~ArgsMissing
    /\ pc' = "wait_sync"
    /\ UNCHANGED <<provider,
                   argc, clock_host, clock_port, base_time, reachable, synced,
                   playbin, bus_watch, io_watch, buffering, is_live, sret,
                   running, iter, cmds, ev, pre, issued, quitBy, afterQuit,
                   bufLog, exit_code>>

\* The net client clock's own thread: it becomes synchronised once the
\* provider has answered enough of its requests.
ClockSynchronises ==
    /\ pc = "wait_sync"
    /\ reachable
    /\ ~synced
    /\ synced' = TRUE
    /\ UNCHANGED <<provider,
                   pc, argc, clock_host, clock_port, base_time, reachable,
                   playbin, bus_watch, io_watch, buffering, is_live, sret,
                   running, iter, cmds, ev, pre, issued, quitBy, afterQuit,
                   bufLog, exit_code>>

\* Variant of WaitReturns: the wait has a timeout and returns when it expires.
WaitReturns_Timeout == TRUE

\* gst_clock_wait_for_sync (net_clock, GST_CLOCK_TIME_NONE) returns: with no
\* timeout it returns only once the clock is synchronised.
WaitReturns == synced

WaitForSync ==
    /\ pc = "wait_sync"
    /\ WaitReturns
    /\ pc' = "create"
    /\ UNCHANGED <<provider,
                   argc, clock_host, clock_port, base_time, reachable, synced,
                   playbin, bus_watch, io_watch, buffering, is_live, sret,
                   running, iter, cmds, ev, pre, issued, quitBy, afterQuit,
                   bufLog, exit_code>>

\* create_element ("playbin", "playbin"): exit (1) when the factory fails.
CreateElement ==
    /\ pc = "create"
    /\ \E made \in BOOLEAN :
         IF made
         THEN /\ playbin' = TRUE
              /\ pc' = "configure"
              /\ UNCHANGED exit_code
         ELSE /\ pc' = "exited"
              /\ exit_code' = "1"
              /\ UNCHANGED playbin
    /\ UNCHANGED <<provider,
                   argc, clock_host, clock_port, base_time, reachable, synced,
                   bus_watch, io_watch, buffering, is_live, sret, running,
                   iter, cmds, ev, pre, issued, quitBy, afterQuit, bufLog>>

\* Variant of BaseTimeCmds: the override is set without clearing first.
BaseTimeCmds_NoClear(bt) ==
    IF bt # GST_CLOCK_TIME_NONE THEN <<SetBaseTime(bt)>> ELSE <<>>

\* The base-time override of main().
BaseTimeCmds(bt) ==
    IF bt # GST_CLOCK_TIME_NONE
    THEN <<SetStartTime(GST_CLOCK_TIME_NONE), SetBaseTime(bt)>>
    ELSE <<>>

\* main() from gst_pipeline_use_clock to g_main_loop_new.
Configure ==
    /\ pc = "configure"
    /\ cmds' = cmds \o <<UseClock>> \o BaseTimeCmds(base_time)
                    \o <<SetLatency(Latency), SetUri, SetDownloadFlag>>
    /\ bus_watch' = "installed"
    /\ pc' = "start"
    /\ UNCHANGED <<provider,
                   argc, clock_host, clock_port, base_time, reachable, synced,
                   playbin, io_watch, buffering, is_live, sret, running, iter,
                   ev, pre, issued, quitBy, afterQuit, bufLog, exit_code>>

\* The switch on the start command's result.
LiveAfterStart(r, live) == IF r = "NO_PREROLL" THEN TRUE ELSE live

\* main(): gst_element_set_state (PLAYING), the switch on its result, the
\* stdin watch, and entry into g_main_loop_run.
StartPlaying ==
    /\ pc = "start"
    /\ \E r \in StateChangeReturns :
         /\ sret' = r
         /\ is_live' = LiveAfterStart(r, is_live)
    /\ cmds' = Append(cmds, SetState("PLAYING"))
    /\ io_watch' = "installed"
    /\ running' = TRUE
    /\ iter' = "bus"
    /\ pc' = "loop"
    /\ UNCHANGED <<provider,
                   argc, clock_host, clock_port, base_time, reachable, synced,
                   playbin, bus_watch, buffering, ev, pre, issued, quitBy,
                   afterQuit, bufLog, exit_code>>

(***************************************************************************)
(* The main loop.  g_main_loop_run iterates while is_running is set; one   *)
(* iteration dispatches the ready sources in the order they were attached: *)
(* the bus watch first, the stdin watch second.  g_main_loop_quit only     *)
(* clears is_running, so the iteration in which it is called still         *)
(* dispatches the sources that follow.                                     *)
(***************************************************************************)
\* Variant of BusReady: bus messages are still dispatched after the quit.
BusReady_IgnoreQuit ==
    /\ pc = "loop"
    /\ iter = "bus"
    /\ bus_watch = "installed"

BusReady ==
    /\ pc = "loop"
    /\ iter = "bus"
    /\ running
    /\ bus_watch = "installed"

IoReady ==
    /\ pc = "loop"
    /\ io_watch = "installed"
    /\ (iter = "io" \/ running)

\* What every handler invocation leaves behind: the event e, the commands c
\* sent to the pipeline, the new value buf of data.buffering, and whether
\* g_main_loop_quit was called.
Dispatch(e, c, buf, quit) ==
    /\ ev' = e
    /\ pre' = [buffering |-> buffering, is_live |-> is_live,
               running |-> running]
    /\ issued' = c
    /\ buffering' = buf
    /\ running' = IF quit THEN FALSE ELSE running
    /\ quitBy' = IF quit /\ quitBy = "none" THEN e.type ELSE quitBy
    /\ afterQuit' = IF running THEN afterQuit ELSE afterQuit \o c
    /\ UNCHANGED <<provider,
                   pc, argc, clock_host, clock_port, base_time, reachable,
                   synced, playbin, bus_watch, is_live, sret, cmds, exit_code>>

BusDispatch(e, c, buf, quit) ==
    /\ BusReady
    /\ Dispatch(e, c, buf, quit)
    /\ iter' = "io"
    /\ UNCHANGED io_watch

(***************************************************************************)
(* handle_bus_msg()                                                        *)
(***************************************************************************)
HandleEOS ==
    /\ BusDispatch(Msg("eos"), <<>>, buffering, TRUE)
    /\ UNCHANGED bufLog

\* Variant of ErrorCmds: the handler restarts playback.
ErrorCmds_Retry == <<SetState("PLAYING")>>

\* GST_MESSAGE_ERROR: what the handler sends to the pipeline, and whether it
\* quits the loop.
ErrorCmds == <<>>
ErrorQuits == TRUE

HandleError ==
    /\ BusDispatch(Msg("error"), ErrorCmds, buffering, ErrorQuits)
    /\ UNCHANGED bufLog

HandleTag ==
    /\ BusDispatch(Msg("tag"), <<>>, buffering, FALSE)
    /\ UNCHANGED bufLog

HandleAsyncDone ==
    /\ BusDispatch(Msg("async_done"), <<>>, buffering, FALSE)
    /\ UNCHANGED bufLog

\* Variant of BufferingCmds: every report below 100 pauses, every report of
\* 100 resumes, whatever data->buffering holds.
BufferingCmds_NoHysteresis(percent, buf, live) ==
    IF live THEN <<>>
    ELSE IF percent = 100 THEN <<SetState("PLAYING")>>
         ELSE <<SetState("PAUSED")>>

\* Variant of BufferingFlag: the is_live test is missing.
BufferingFlag_IgnoreLive(percent, buf, live) ==
    IF percent = 100
    THEN IF buf THEN FALSE ELSE buf
    ELSE IF ~buf THEN TRUE ELSE buf

\* Variant of BufferingFlag: the flag is not cleared when playback resumes.
BufferingFlag_NeverCleared(percent, buf, live) ==
    IF live THEN buf
    ELSE IF percent = 100 THEN buf ELSE TRUE

\* GST_MESSAGE_BUFFERING: the state command the handler issues ...
BufferingCmds(percent, buf, live) ==
    IF live THEN <<>>
    ELSE IF percent = 100
         THEN IF buf THEN <<SetState("PLAYING")>> ELSE <<>>
         ELSE IF ~buf THEN <<SetState("PAUSED")>> ELSE <<>>

\* ... and the value it leaves in data->buffering.
BufferingFlag(percent, buf, live) ==
    IF live THEN buf
    ELSE IF percent = 100
         THEN IF buf THEN FALSE ELSE buf
         ELSE IF ~buf THEN TRUE ELSE buf

\* The record of the buffering messages handled: message after message as
\* long as their levels follow Scenario, started again at a level that does not.
Logged(log, entry) ==
    IF Len(log) < Len(Scenario) /\ entry.percent = Scenario[Len(log) + 1]
    THEN Append(log, entry)
    ELSE IF entry.percent = Scenario[1] THEN <<entry>> ELSE <<>>

HandleBuffering ==
    \E percent \in Percents :
      LET c == BufferingCmds(percent, buffering, is_live)
          b == BufferingFlag(percent, buffering, is_live)
      IN  /\ BusDispatch(Event("buffering", percent, "-", TRUE, 0), c, b, FALSE)
          /\ bufLog' = Logged(bufLog, [issued |-> c,
                                       percent |-> percent,
                                       before |-> buffering])

\* Variant of ClockLostCmds: the pause is dropped as redundant.
ClockLostCmds_PlayOnly == <<SetState("PLAYING")>>

\* GST_MESSAGE_CLOCK_LOST
ClockLostCmds == <<SetState("PAUSED"), SetState("PLAYING")>>

HandleClockLost ==
    /\ BusDispatch(Msg("clock_lost"), ClockLostCmds, buffering, FALSE)
    /\ UNCHANGED bufLog

\* Variant of LatencyCmds: the pipeline is paused and restarted around the
\* recalculation.
LatencyCmds_Restart ==
    <<SetState("PAUSED"), RecalculateLatency, SetState("PLAYING")>>

\* GST_MESSAGE_LATENCY
LatencyCmds == <<RecalculateLatency>>

HandleLatency ==
    /\ BusDispatch(Msg("latency"), LatencyCmds, buffering, FALSE)
    /\ UNCHANGED bufLog

\* Variant of RequestStateCmds: a request to play is refused while buffering.
RequestStateCmds_Guarded(state, buf, live) ==
    IF buf /\ state = "PLAYING" THEN <<>> ELSE <<SetState(state)>>

\* GST_MESSAGE_REQUEST_STATE
RequestStateCmds(state, buf, live) == <<SetState(state)>>
RequestStateFlag(state, buf, live) == buf

HandleRequestState ==
    \E state \in GstStates :
      /\ BusDispatch(Event("request_state", 0, state, TRUE, 0),
                     RequestStateCmds(state, buffering, is_live),
                     RequestStateFlag(state, buffering, is_live), FALSE)
      /\ UNCHANGED bufLog

HandleWarning ==
    /\ BusDispatch(Msg("warning"), <<>>, buffering, FALSE)
    /\ UNCHANGED bufLog

HandleStateChanged ==
    /\ BusDispatch(Msg("state_changed"), <<>>, buffering, FALSE)
    /\ UNCHANGED bufLog

\* default: a missing-plugin message is printed, anything else is ignored.
HandleOther ==
    /\ BusDispatch(Msg("other"), <<>>, buffering, FALSE)
    /\ UNCHANGED bufLog

(***************************************************************************)
(* io_callback() and the commands it runs                                  *)
(***************************************************************************)
\* Variant of SeekTarget: the backward seek is not clamped.
SeekTarget_NoClamp(position, forward) ==
    IF forward THEN position + SeekStep ELSE position - SeekStep

\* seek(): the position handed to gst_element_seek_simple.
SeekTarget(position, forward) ==
    IF forward THEN position + SeekStep
    ELSE IF position > SeekStep THEN position - SeekStep
    ELSE 0

\* Variant of SeekCmds: the pipeline is paused before it is sought.
SeekCmds_PauseFirst(ok, position, forward) ==
    IF ok THEN <<SetState("PAUSED"), SeekSimple(SeekTarget(position, forward))>>
    ELSE <<>>

\* Variant of SeekCmds: the result of the position query is ignored.
SeekCmds_IgnoreQuery(ok, position, forward) ==
    <<SeekSimple(SeekTarget(position, forward))>>

\* seek(): nothing is sent when the position query fails.
SeekCmds(ok, position, forward) ==
    IF ok THEN <<SeekSimple(SeekTarget(position, forward))>> ELSE <<>>

\* next_audio() / next_subtitle(): the track after current, wrapping to 0.
NextTrack(current, count) ==
    IF current + 1 >= count THEN 0 ELSE current + 1

IoDispatch(e, c, quit, keep) ==
    /\ IoReady
    /\ Dispatch(e, c, buffering, quit)
    /\ iter' = "bus"
    /\ io_watch' = IF keep THEN io_watch ELSE "removed"
    /\ UNCHANGED bufLog

Key(ch) == Event("key", 0, ch, TRUE, 0)

IoQuit == IoDispatch(Key("q"), <<>>, TRUE, TRUE)

IoSeek ==
    \E forward \in BOOLEAN, ok \in BOOLEAN, position \in Positions :
      IoDispatch(Event("key", 0, IF forward THEN "g" ELSE "f", ok,
                       IF ok THEN position ELSE 0),
                 SeekCmds(ok, position, forward), FALSE, TRUE)

IoNextAudio ==
    \E count \in 0..2, current \in -1..1 :
      /\ current < count
      /\ IoDispatch(Key("a"), <<SetCurrentAudio(NextTrack(current, count))>>,
                    FALSE, TRUE)

IoToggleSubtitle ==
    \E on \in BOOLEAN :
      IoDispatch(Key("d"), <<SetSubtitles(~on)>>, FALSE, TRUE)

IoNextSubtitle ==
    \E count \in 0..2, current \in -1..1 :
      /\ current < count
      /\ IoDispatch(Key("s"), <<SetCurrentText(NextTrack(current, count)),
                                SetSubtitles(TRUE)>>, FALSE, TRUE)

IoToggleVis ==
    \E on \in BOOLEAN :
      IoDispatch(Key("v"), <<SetVis(~on)>>, FALSE, TRUE)

\* Variant of IoOtherChar: an unknown character ends the program.
IoOtherChar_Quit == IoDispatch(Key("x"), <<>>, TRUE, TRUE)

\* Any other character: no case of the inner switch matches.
IoOtherChar == IoDispatch(Key("x"), <<>>, FALSE, TRUE)

IoAgain == IoDispatch(Msg("io_again"), <<>>, FALSE, TRUE)

\* G_IO_STATUS_ERROR: quit and return FALSE, which removes the watch.
IoError == IoDispatch(Msg("io_error"), <<>>, TRUE, FALSE)

\* default (G_IO_STATUS_EOF): return FALSE, which removes the watch.
IoEof == IoDispatch(Msg("io_eof"), <<>>, FALSE, FALSE)

\* The iteration ends with the stdin watch not ready.
EndIteration ==
    /\ pc = "loop"
    /\ iter = "io"
    /\ iter' = "bus"
    /\ UNCHANGED <<provider,
                   pc, argc, clock_host, clock_port, base_time, reachable,
                   synced, playbin, bus_watch, io_watch, buffering, is_live,
                   sret, running, cmds, ev, pre, issued, quitBy, afterQuit,
                   bufLog, exit_code>>

\* g_main_loop_run returns: is_running is clear when an iteration would start.
LoopReturns ==
    /\ pc = "loop"
    /\ iter = "bus"
    /\ ~running
    /\ pc' = "cleanup"
    /\ UNCHANGED <<provider,
                   argc, clock_host, clock_port, base_time, reachable, synced,
                   playbin, bus_watch, io_watch, buffering, is_live, sret,
                   running, iter, cmds, ev, pre, issued, quitBy, afterQuit,
                   bufLog, exit_code>>

\* main() after the loop: what it sends to the pipeline ...
CleanupCmds == <<SetState("NULL"), Unref>>
\* ... and what it returns.
ExitStatus == "0"

\* g_source_remove on a watch: removing an id that is no longer attached is
\* a failed removal.
Removed(w) == IF w = "installed" THEN "removed" ELSE "removed_again"

Cleanup ==
    /\ pc = "cleanup"
    /\ bus_watch' = Removed(bus_watch)
    /\ io_watch' = Removed(io_watch)
    /\ cmds' = cmds \o CleanupCmds
    /\ playbin' = FALSE
    /\ exit_code' = ExitStatus
    /\ pc' = "exited"
    /\ UNCHANGED <<provider,
                   argc, clock_host, clock_port, base_time, reachable, synced,
                   buffering, is_live, sret, running, iter, ev, pre, issued,
                   quitBy, afterQuit, bufLog>>

HandleBusMsg ==
    \/ HandleEOS \/ HandleError \/ HandleTag \/ HandleAsyncDone
    \/ HandleBuffering \/ HandleClockLost \/ HandleLatency
    \/ HandleRequestState \/ HandleWarning \/ HandleStateChanged
    \/ HandleOther

IoCallback ==
    \/ IoQuit \/ IoSeek \/ IoNextAudio \/ IoToggleSubtitle \/ IoNextSubtitle
    \/ IoToggleVis \/ IoOtherChar \/ IoAgain \/ IoError \/ IoEof

Next ==
    \/ Usage \/ NewNetClock \/ ClockSynchronises \/ WaitForSync
    \/ CreateElement \/ Configure \/ StartPlaying
    \/ HandleBusMsg \/ IoCallback \/ EndIteration \/ LoopReturns \/ Cleanup

Spec == Init /\ [][Next]_vars

(***************************************************************************)
(* The clock provider, netclock-server.c                                   *)
(***************************************************************************)
TimerPeriod == 1               \* g_timeout_add_seconds (1, ...)
MaxTicks == 5                  \* timer ticks followed

ProviderPorts == {0, 5000, 5001}
EphemeralPorts == {32768, 45678}
StartTimes == {0, 1000}

\* The player is not part of the run.
PlayerOff ==
    /\ pc = "off"
    /\ argc = 1
    /\ clock_host = "NULL"
    /\ clock_port = 0
    /\ base_time = GST_CLOCK_TIME_NONE
    /\ reachable = FALSE
    /\ synced = FALSE
    /\ playbin = FALSE
    /\ bus_watch = "none"
    /\ io_watch = "none"
    /\ buffering = FALSE
    /\ is_live = FALSE
    /\ sret = "-"
    /\ running = FALSE
    /\ iter = "bus"
    /\ cmds = <<>>
    /\ ev = NoEvent
    /\ pre = [buffering |-> FALSE, is_live |-> FALSE, running |-> FALSE]
    /\ issued = <<>>
    /\ quitBy = "none"
    /\ afterQuit = <<>>
    /\ bufLog = <<>>
    /\ exit_code = "none"

PlayerUnchanged ==
    UNCHANGED <<pc, argc, clock_host, clock_port, base_time, reachable,
                synced, playbin, bus_watch, io_watch, buffering, is_live,
                sret, running, iter, cmds, ev, pre, issued, quitBy, afterQuit,
                bufLog, exit_code>>

ProviderInit ==
    /\ PlayerOff
    /\ \E ac \in {1, 2}, av \in ProviderPorts, now \in StartTimes :
         provider = ProviderState("start", ac, av, 0, FALSE, "none", FALSE,
                                  now, 0, <<>>)

PortLine(port) == [val |-> port, kind |-> "port"]
TimeLine(t) == [val |-> t, kind |-> "time"]

\* main(): clock_port = atoi (argv[1]) when an argument is given.
ProviderParse ==
    /\ provider.pc = "start"
    /\ provider' = [provider EXCEPT
                      !.pc = "publish",
                      !.clock_port = IF provider.argc > 1
                                     THEN provider.argv_port ELSE 0]
    /\ PlayerUnchanged

\* The port the time provider listens on: the one asked for, or one the
\* system picks when 0 is asked for.
BoundPort(requested, ephemeral) ==
    IF requested = 0 THEN ephemeral ELSE requested

\* main() from g_main_loop_new to g_main_loop_run: the time provider is
\* created (or not, and then clock_port stays as it was), its port is read
\* and printed, the timer is added and the loop is entered.
ProviderPublish ==
    /\ provider.pc = "publish"
    /\ \E made \in BOOLEAN, ephemeral \in EphemeralPorts :
         LET port == IF made THEN BoundPort(provider.clock_port, ephemeral)
                     ELSE provider.clock_port
         IN  provider' = [provider EXCEPT
                            !.pc = "loop",
                            !.net_clock = made,
                            !.clock_port = port,
                            !.out = Append(provider.out, PortLine(port)),
                            !.timer = "armed",
                            !.running = TRUE]
    /\ PlayerUnchanged

\* Variant of PrintTimeReturn: the callback runs once.
PrintTimeReturn_Remove == "REMOVE"

\* print_time(): what the callback returns, and whether it quits the loop.
PrintTimeReturn == "CONTINUE"
PrintTimeQuits == FALSE

\* One tick of the timer: print_time() prints the clock's time; the timer
\* stays only if the callback returns G_SOURCE_CONTINUE; g_main_loop_run
\* returns, and main() after it, once is_running is clear.
PrintTime ==
    /\ provider.pc = "loop"
    /\ provider.running
    /\ provider.timer = "armed"
    /\ provider.ticks < MaxTicks
    /\ LET t == provider.now + TimerPeriod
           run == provider.running /\ ~PrintTimeQuits
       IN  provider' = [provider EXCEPT
                          !.now = t,
                          !.ticks = provider.ticks + 1,
                          !.out = Append(provider.out, TimeLine(t)),
                          !.timer = IF PrintTimeReturn = "CONTINUE"
                                    THEN "armed" ELSE "removed",
                          !.running = run,
                          !.pc = IF run THEN "loop" ELSE "exited"]
    /\ PlayerUnchanged

ProviderNext == ProviderParse \/ ProviderPublish \/ PrintTime

SpecProvider == ProviderInit /\ [][ProviderNext]_vars

(***************************************************************************)
(* Properties                                                              *)
(***************************************************************************)
Max(a, b) == IF a >= b THEN a ELSE b
Has(s, c) == \E i \in 1..Len(s) : s[i] = c
HasOp(s, op) == \E i \in 1..Len(s) : s[i].op = op
IoEvents == {"key", "io_again", "io_error", "io_eof"}
Pause == <<SetState("PAUSED")>>
Play == <<SetState("PLAYING")>>

\* C1: in a session whose liveness flag is clear, a buffering report issues
\* Pause exactly when its level is below 100 and the buffering flag is clear,
\* Play exactly when its level is 100 and the flag is set, and nothing
\* otherwise, and it leaves the flag set exactly when the level is below 100.
\* The reports 90, 95, 99, 100, starting with the flag clear, issue one
\* Pause, at 90, and one Play, at 100.
C1_BufferingHysteresis ==
    /\ ev.type = "buffering" /\ ~pre.is_live =>
         /\ issued = IF ev.percent < 100 /\ ~pre.buffering THEN Pause
                     ELSE IF ev.percent = 100 /\ pre.buffering THEN Play
                     ELSE <<>>
         /\ buffering = (ev.percent < 100)
    /\ Len(bufLog) = 4 /\ ~bufLog[1].before /\ ~is_live =>
         /\ bufLog[1].issued = Pause
         /\ bufLog[2].issued = <<>>
         /\ bufLog[3].issued = <<>>
         /\ bufLog[4].issued = Play

C1_Witness ==
    /\ Len(bufLog) = 4
    /\ ~bufLog[1].before
    /\ ~is_live
    /\ ev.type = "buffering"
    /\ ev.percent = 100

\* C2: in a session made live by a start command that returned no-preroll,
\* the liveness flag is set and a buffering report of any level issues no
\* command and leaves the buffering flag as it was.
C2_LiveNeverPauses ==
    /\ sret = "NO_PREROLL" => is_live
    /\ ev.type = "buffering" /\ sret = "NO_PREROLL" =>
         /\ issued = <<>>
         /\ buffering = pre.buffering

C2_Witness ==
    /\ sret = "NO_PREROLL"
    /\ ev.type = "buffering"
    /\ ev.percent = 90
    /\ ~pre.buffering

\* C3: the clock_lost handler issues set_state(Paused) and then
\* set_state(Playing), and nothing else.
C3_ClockLostPausePlay ==
    ev.type = "clock_lost" =>
        /\ Len(issued) = 2
        /\ issued[1] = SetState("PAUSED")
        /\ issued[2] = SetState("PLAYING")

C3_Witness ==
    /\ ev.type = "clock_lost"
    /\ ~pre.buffering
    /\ Len(issued) = 2

\* C4: with the position query answering P >= 0, a backward seek targets
\* max(0, P - 10s) and a forward seek targets P + 10s; the target is never
\* negative; from 5s and from 10s backward is 0, from 30s backward is 20s.
C4_SeekTarget ==
    ev.type = "key" /\ ev.state \in {"f", "g"} /\ ev.ok =>
        /\ Len(issued) = 1
        /\ issued[1].op = "seek"
        /\ issued[1].val >= 0
        /\ ev.state = "f" => issued[1].val = Max(0, ev.pos - 10)
        /\ ev.state = "g" => issued[1].val = ev.pos + 10
        /\ ev.state = "f" /\ ev.pos \in {5, 10} => issued[1].val = 0
        /\ ev.state = "f" /\ ev.pos = 30 => issued[1].val = 20

C4_Witness ==
    /\ ev.type = "key"
    /\ ev.state = "f"
    /\ ev.ok
    /\ ev.pos = 5
    /\ issued = <<SeekSimple(0)>>

\* C5: the pipeline exists, or has been sent a command, only after the
\* blocking wait for synchronisation has returned with the clock synchronised.
C5_NoCommandBeforeSync ==
    playbin \/ cmds # <<>> \/ issued # <<>> =>
        /\ synced
        /\ pc \notin {"parse", "wait_sync"}

C5_Witness ==
    /\ synced
    /\ Has(cmds, SetState("PLAYING"))
    /\ pc = "loop"

\* C6: with the provider unreachable, a player given its arguments is never
\* synchronised and never leaves the start-up wait: it does not exit, builds
\* no pipeline, issues no command and never runs the loop.
C6_UnreachableBlocksForever ==
    ~reachable /\ ~ArgsMissing =>
        /\ ~synced
        /\ pc \in {"parse", "wait_sync"}
        /\ exit_code = "none"
        /\ ~playbin
        /\ cmds = <<>>
        /\ ~running
        /\ ev = NoEvent

C6_Witness ==
    /\ ~reachable
    /\ pc = "wait_sync"
    /\ ~synced

\* C7: with a base-time override, main() clears the start time and then sets
\* the override, both before the start command; the base time is set at most
\* once, never after the start command and never by a handler; without an
\* override it is never set.
C7_BaseTimeOnceBeforeStart ==
    /\ ~HasOp(issued, "set_base_time")
    /\ ~HasOp(afterQuit, "set_base_time")
    /\ Cardinality({i \in 1..Len(cmds) : cmds[i].op = "set_base_time"}) <= 1
    /\ \A i, j \in 1..Len(cmds) :
         cmds[i].op = "set_state" /\ cmds[j].op = "set_base_time" => j < i
    /\ base_time = GST_CLOCK_TIME_NONE => ~HasOp(cmds, "set_base_time")
    /\ base_time # GST_CLOCK_TIME_NONE /\ HasOp(cmds, "set_state") =>
         \E i \in 1..Len(cmds) - 1 :
           /\ cmds[i] = SetStartTime(GST_CLOCK_TIME_NONE)
           /\ cmds[i + 1] = SetBaseTime(base_time)

C7_Witness ==
    /\ base_time = 1000
    /\ Has(cmds, SetBaseTime(1000))
    /\ pc = "loop"
    /\ ev.type = "clock_lost"

\* C8: the error handler issues no command and quits the loop, whatever the
\* buffering and liveness flags hold; no bus message is handled after it and
\* no handler issues a state command after it; main() then sets the pipeline
\* to NULL, releases it and returns 0.
C8_ErrorTerminates ==
    /\ ev.type = "error" => issued = <<>> /\ ~running
    /\ quitBy = "error" =>
         /\ ev.type = "error" \/ ev.type \in IoEvents
         /\ StateCmds(afterQuit) = <<>>
    /\ quitBy = "error" /\ pc = "exited" =>
         /\ exit_code = "0"
         /\ ~playbin
         /\ Len(cmds) >= 2
         /\ cmds[Len(cmds) - 1] = SetState("NULL")
         /\ cmds[Len(cmds)] = Unref

C8_Witness ==
    /\ quitBy = "error"
    /\ ev.type = "error"
    /\ pre.buffering
    /\ pc = "exited"
    /\ exit_code = "0"

\* C9: the EOS handler and the 'q' command quit the loop; after the loop has
\* been told to quit no handler issues a state command, main() issues the one
\* set_state(NULL), and the process returns 0.
C9_QuitIsTerminal ==
    /\ ev.type = "eos" \/ (ev.type = "key" /\ ev.state = "q") =>
         issued = <<>> /\ ~running
    /\ StateCmds(afterQuit) = <<>>
    /\ quitBy # "none" /\ pc = "loop" => ~running
    /\ quitBy # "none" /\ pc = "exited" =>
         /\ exit_code = "0"
         /\ StateCmds(cmds) = <<SetState("PLAYING"), SetState("NULL")>>

C9_Witness ==
    /\ quitBy = "eos"
    /\ afterQuit # <<>>
    /\ pc = "exited"
    /\ exit_code = "0"

\* C10: the request-state handler issues exactly set_state(requested state)
\* and leaves the buffering and liveness flags as they were, whatever they
\* hold.
C10_RequestStateHonoured ==
    ev.type = "request_state" =>
        /\ issued = <<SetState(ev.state)>>
        /\ buffering = pre.buffering
        /\ is_live = pre.is_live

C10_Witness ==
    /\ ev.type = "request_state"
    /\ ev.state = "PLAYING"
    /\ pre.buffering
    /\ ~pre.is_live
    /\ issued = Play

\* C11: handling 'f' or 'g' issues no set_state command, leaves the buffering
\* and liveness flags and the loop's running flag as they were, and keeps the
\* input watch; with the position query answered it issues exactly one seek.
C11_SeekKeepsState ==
    ev.type = "key" /\ ev.state \in {"f", "g"} =>
        /\ StateCmds(issued) = <<>>
        /\ buffering = pre.buffering
        /\ is_live = pre.is_live
        /\ running = pre.running
        /\ pc = "loop" => io_watch = "installed"
        /\ ev.ok => Len(issued) = 1 /\ issued[1].op = "seek"

C11_Witness ==
    /\ ev.type = "key"
    /\ ev.state = "g"
    /\ ev.ok
    /\ pre.buffering
    /\ running
    /\ issued = <<SeekSimple(40)>>

\* C12: the warning, latency, tag, async-done and state-changed handlers
\* issue no set_state command and leave the buffering and liveness flags and
\* the loop's running flag as they were; the latency handler issues exactly
\* one latency recalculation, the others issue nothing.
C12_PassiveHandlers ==
    ev.type \in {"warning", "latency", "tag", "async_done", "state_changed"} =>
        /\ StateCmds(issued) = <<>>
        /\ buffering = pre.buffering
        /\ is_live = pre.is_live
        /\ running = pre.running
        /\ pre.running
        /\ issued = IF ev.type = "latency" THEN <<RecalculateLatency>> ELSE <<>>

C12_Witness ==
    /\ ev.type = "latency"
    /\ pre.buffering
    /\ ~pre.is_live
    /\ running
    /\ issued = <<RecalculateLatency>>

\* C13: started without a media locator, without a provider host or with a
\* provider port of 0, the player does nothing but return 1: it creates no
\* clock, builds no pipeline, issues no command, installs no watch and never
\* runs the loop.
C13_UsageExit ==
    argc < 2 \/ clock_host = "NULL" \/ clock_port = 0 =>
        /\ pc \in {"parse", "exited"}
        /\ pc = "exited" => exit_code = "1"
        /\ pc = "parse" => exit_code = "none"
        /\ ~synced
        /\ ~playbin
        /\ cmds = <<>>
        /\ bus_watch = "none"
        /\ io_watch = "none"
        /\ ~running
        /\ ev = NoEvent

C13_Witness ==
    /\ argc = 2
    /\ clock_host # "NULL"
    /\ clock_port = 0
    /\ pc = "exited"
    /\ exit_code = "1"

\* C14: a character other than q, f, g, a, d, s, v that was read from the
\* input issues no pipeline command, leaves the buffering and liveness flags
\* and the loop's running flag as they were, and keeps the input watch.
C14_UnknownInputIgnored ==
    ev.type = "key" /\ ev.state \notin {"q", "f", "g", "a", "d", "s", "v"} =>
        /\ issued = <<>>
        /\ buffering = pre.buffering
        /\ is_live = pre.is_live
        /\ running = pre.running
        /\ pc = "loop" => io_watch = "installed"

C14_Witness ==
    /\ ev = Key("x")
    /\ pc = "loop"
    /\ running
    /\ io_watch = "installed"

\* C15: the provider's first printed line is the port line and every later
\* line is a clock value, one for each timer tick; once in the loop the
\* timer stays armed and the loop stays running; the provider never exits.
C15_ProviderRunsForever ==
    /\ provider.pc \in {"start", "publish"} => provider.out = <<>>
    /\ provider.pc \notin {"start", "publish"} =>
         /\ Len(provider.out) = 1 + provider.ticks
         /\ provider.out[1] = PortLine(provider.clock_port)
         /\ \A i \in 2..Len(provider.out) : provider.out[i].kind = "time"
         /\ provider.timer = "armed"
         /\ provider.running
    /\ provider.pc # "exited"

C15_Witness ==
    /\ provider.pc = "loop"
    /\ provider.ticks = 3
    /\ Len(provider.out) = 4
    /\ provider.out[4].kind = "time"

LastOf(s) == s[Len(s)]

\* C18 as claimed: in a non-live session, whenever the buffering flag is set
\* the most recent state command is Paused.  Stated for the sessions in which
\* the buffering handler itself set the flag (the flag was clear when the
\* report of 90 arrived), at the states where the handler that just ran
\* issued a state command, which is then the most recent one.
C18_AsClaimed ==
    /\ pc = "loop"
    /\ ~is_live
    /\ buffering
    /\ bufLog # <<>>
    /\ ~bufLog[1].before
    /\ StateCmds(issued) # <<>>
    => LastOf(StateCmds(issued)) = SetState("PAUSED")

\* C18 as amended: in a non-live session the buffering handler sets the
\* buffering flag only together with a Paused command and never issues
\* Playing while leaving the flag set; a handler that leaves the flag set and
\* ends on a state command other than Paused is the clock_lost handler or
\* the request_state handler.
C18_BufferingHandlerNeverPlaysWhileBuffering ==
    /\ ev.type = "buffering" /\ ~pre.is_live /\ buffering =>
         ~Has(issued, SetState("PLAYING"))
    /\ ev.type = "buffering" /\ ~pre.is_live /\ ~pre.buffering /\ buffering =>
         issued = Pause
    /\ /\ ~is_live
       /\ buffering
       /\ StateCmds(issued) # <<>>
       /\ LastOf(StateCmds(issued)) # SetState("PAUSED")
       => ev.type \in {"clock_lost", "request_state"}

C18_Witness ==
    /\ ev.type = "clock_lost"
    /\ ~is_live
    /\ buffering
    /\ bufLog # <<>>
    /\ ~bufLog[1].before
    /\ LastOf(issued) = SetState("PLAYING")

\* C19 as claimed: when the loop starts dispatching, and so when the first
\* bus message is handled, the buffering flag is clear and the liveness flag
\* is set exactly when the start command returned no-preroll; no handler
\* changes the liveness flag.
C19_AsClaimed ==
    /\ pc = "loop" /\ ev = NoEvent =>
         /\ ~buffering
         /\ is_live <=> sret = "NO_PREROLL"
    /\ ev # NoEvent => is_live = pre.is_live

\* C20 as claimed: when the player has run its loop and returned, the bus
\* watch and the input watch have each been removed exactly once and the
\* pipeline has been set to NULL exactly once.
C20_AsClaimed ==
    pc = "exited" /\ exit_code = "0" =>
        /\ bus_watch = "removed"
        /\ io_watch = "removed"
        /\ Cardinality({i \in 1..Len(cmds) : cmds[i] = SetState("NULL")}) = 1

\* C21: when the position query fails while an 'f' or 'g' key is handled, no
\* command at all is sent to the pipeline, the buffering and liveness flags
\* keep their values, the loop is not asked to quit, and the input watch
\* stays installed.
C21_FailedQueryChangesNothing ==
    ev.type = "key" /\ ev.state \in {"f", "g"} /\ ~ev.ok =>
        /\ issued = <<>>
        /\ buffering = pre.buffering
        /\ is_live = pre.is_live
        /\ running = pre.running
        /\ quitBy # "key"
        /\ pc = "loop" => io_watch = "installed"

C21_Witness ==
    /\ ev.type = "key"
    /\ ev.state = "f"
    /\ ~ev.ok
    /\ pc = "loop"
    /\ running
    /\ pre.running
    /\ issued = <<>>
====
